---- MODULE Spec2Model ----
(***************************************************************************)
(* Model of app.py: the three conversion functions epub_to_text,           *)
(* pdf_to_text and pdf_ocr, and the Streamlit script that dispatches on    *)
(* the uploaded file, stores results in st.session_state and renders them. *)
(*                                                                         *)
(* A Python str is a sequence of one-character strings; a character        *)
(* outside ASCII is written as its code point ("U+76EE").  None is a       *)
(* value of its own (NoneVal), so that None, "" and a non-empty string     *)
(* stay distinct, as the truthiness tests of the script need.              *)
(***************************************************************************)
EXTENDS Integers, Sequences, FiniteSets

VARIABLES
    file_content,   \* the bytes handed to the conversion function(s) last called
    call,           \* what the last conversion call(s) did and returned
    session_state,  \* st.session_state: processed_text, file_name, toc, secondary_text
    run,            \* the inputs of the last script run (widgets as the script read them)
    ui,             \* what the last script run rendered
    last_conversion \* history: the inputs of the last run that pressed a conversion button

vars == <<file_content, call, session_state, run, ui, last_conversion>>

\* ------------------------------------------------------------------ bounds

MaxToc == 2        \* entries in a table of contents
MaxPages == 3      \* pages of a PDF
MaxItems == 2      \* items of an EPUB
UiMaxPages == 1    \* pages of a PDF uploaded through the UI

\* ------------------------------------------------------------------ Python values

NoneVal == [none |-> TRUE, s |-> <<>>]
Some(s) == [none |-> FALSE, s |-> s]
\* Python truthiness of None or a str: `if x:`
Truthy(v) == ~v.none /\ v.s # <<>>

RECURSIVE Repeat(_, _)
\* s * n for a str s; a count below 1 gives ""
Repeat(s, n) == IF n <= 0 THEN <<>> ELSE s \o Repeat(s, n - 1)

Digit(d) == <<"0", "1", "2", "3", "4", "5", "6", "7", "8", "9">>[d + 1]

RECURSIVE NatToStr(_)
NatToStr(n) == IF n < 10 THEN <<Digit(n)>> ELSE NatToStr(n \div 10) \o <<Digit(n % 10)>>

\* str(n) as an f-string field renders an int: decimal, '-' for a negative
IntToStr(n) == IF n < 0 THEN <<"-">> \o NatToStr(-n) ELSE NatToStr(n)

RECURSIVE Join(_, _)
\* sep.join(parts)
Join(sep, parts) ==
    IF Len(parts) = 0 THEN <<>>
    ELSE IF Len(parts) = 1 THEN parts[1]
    ELSE parts[1] \o sep \o Join(sep, Tail(parts))

\* s.endswith(suffix), case-sensitive
EndsWith(s, suffix) ==
    /\ Len(s) >= Len(suffix)
    /\ SubSeq(s, Len(s) - Len(suffix) + 1, Len(s)) = suffix

\* s.rfind(c): the last index of c (0-based in Python; here 1-based, 0 for none)
RFind(s, c) ==
    IF \E i \in 1..Len(s) : s[i] = c
    THEN CHOOSE i \in 1..Len(s) : s[i] = c /\ \A j \in (i + 1)..Len(s) : s[j] # c
    ELSE 0

\* os.path.splitext(p)[0]: cut at the last dot when it comes after the last
\* separator and some character before it, after the separator, is not a dot
SplitExtRoot(p) ==
    LET sepIndex == RFind(p, "/")
        dotIndex == RFind(p, ".")
    IN  IF /\ dotIndex > sepIndex
           /\ \E i \in (sepIndex + 1)..(dotIndex - 1) : p[i] # "."
        THEN SubSeq(p, 1, dotIndex - 1)
        ELSE p

\* ------------------------------------------------------------------ string literals

TocHeader == <<"U+76EE", "U+5F55", ":", "\n">>
TocNotFound == <<"U+672A", "U+627E", "U+5230", "U+76EE", "U+5F55", "U+3002", "\n">>
PageLabel == <<"U+9875", "U+7801">>
EpubErrPrefix ==
    <<"U+5904", "U+7406", "E", "P", "U", "B", "U+6587", "U+4EF6", "U+65F6", "U+51FA",
      "U+9519", ":", " ">>
PdfErrPrefix ==
    <<"U+5904", "U+7406", "P", "D", "F", "U+6587", "U+4EF6", "U+65F6", "U+51FA",
      "U+9519", ":", " ">>
OcrErrPrefix ==
    <<"O", "C", "R", "U+5904", "U+7406", "P", "D", "F", "U+65F6", "U+51FA", "U+9519",
      ":", " ">>

\* ------------------------------------------------------------------ documents

SeqsUpTo(S, n) == UNION {[1..k -> S] : k \in 0..n}

\* get_toc() entries: [level, title, page]; PyMuPDF gives page -1 to an entry
\* that points nowhere
TocEntries ==
    { [level |-> 1, title |-> <<"A">>, page |-> 5],
      [level |-> 2, title |-> <<"B", "c">>, page |-> 12],
      [level |-> 3, title |-> <<"A">>, page |-> -1] }

\* a page: its text layer (page.get_text()) and what OCR reads off its image
\* (a text page, and a scanned page with no text layer)
PageKinds ==
    { [text |-> <<"x", "\n">>, ocr |-> <<"x", "\n">>],
      [text |-> <<>>, ocr |-> <<"y">>] }

\* an EPUB item: whether it is an ITEM_DOCUMENT, and its content
ItemKinds ==
    { [doc |-> TRUE, html |-> <<"<p>", "h", "</p>">>],
      [doc |-> TRUE, html |-> <<>>],
      [doc |-> FALSE, html |-> <<"c", "s", "s">>] }

PdfDoc(toc, pages) == [kind |-> "pdf", toc |-> toc, pages |-> pages, items |-> <<>>]
EpubDoc(items) == [kind |-> "epub", toc |-> <<>>, pages |-> <<>>, items |-> items]
\* a byte stream that is neither
JunkDoc == [kind |-> "junk", toc |-> <<>>, pages |-> <<>>, items |-> <<>>]

PdfDocs(maxToc, maxPages) ==
    {PdfDoc(t, p) : t \in SeqsUpTo(TocEntries, maxToc), p \in SeqsUpTo(PageKinds, maxPages)}
EpubDocs(maxItems) == {EpubDoc(i) : i \in SeqsUpTo(ItemKinds, maxItems)}

\* ------------------------------------------------------------------ failures

\* Where the first exception of a call is raised: at a step ("open", "toc",
\* "create", ...), for the per-page and per-item steps at page or item k.
NoFault == [at |-> "none", k |-> 0]
Fault(at) == [at |-> at, k |-> 0]
FaultAt(at, k) == [at |-> at, k |-> k]

\* str(e) of the exception raised at a step; MemoryError() has the empty one
ExcMsg(at) ==
    CASE at = "open" -> <<"b", "a", "d">>
      [] at = "read" -> <<"b", "a", "d">>
      [] at = "raster" -> <<>>
      [] OTHER -> <<"e", "r", "r">>

DocItems(content) == {k \in 1..Len(content.items) : content.items[k].doc}

EpubFaults(content) ==
    {NoFault, Fault("create"), Fault("write"), Fault("close"), Fault("read")}
        \cup {FaultAt("item", k) : k \in DocItems(content)}

PdfTextFaults(content) ==
    {NoFault, Fault("open"), Fault("toc")}
        \cup {FaultAt("page", k) : k \in 1..Len(content.pages)}

PdfOcrFaults(content) ==
    {NoFault, Fault("open"), Fault("toc")}
        \cup {FaultAt(st, k) : st \in {"raster", "ocr", "progress"}, k \in 1..Len(content.pages)}

\* what a call did: the function, whether its except clause ran, whether it
\* raised to its caller, the values it returned (none when it raised), the
\* temporary file, the progress sink
CallRecord(fn, fault, caught, raised, ret, created, exists, reports, attempted, started) ==
    [fn |-> fn, fault |-> fault, caught |-> caught, raised |-> raised, ret |-> ret,
     tmp_created |-> created, tmp_exists |-> exists,
     reports |-> reports, attempted |-> attempted, started |-> started]

\* ------------------------------------------------------------------ epub_to_text

IsTag(t) == t \in {"<p>", "</p>"}
\* BeautifulSoup(content, 'html.parser').get_text(): the text without the markup
GetText(html) == SelectSeq(html, LAMBDA t : ~IsTag(t))

RECURSIVE EpubTexts(_, _)
\* the loop over book.get_items(): text_content after the first n items
EpubTexts(items, n) ==
    IF n = 0 THEN <<>>
    ELSE IF items[n].doc THEN Append(EpubTexts(items, n - 1), GetText(items[n].html))
    ELSE EpubTexts(items, n - 1)

epub_to_text(content, fault, unlink_fails) ==
    LET created == fault.at # "create"
        \* line 23 is reached only after tmp.write returned
        tmp_path_set == created /\ fault.at # "write"
        failed ==
            \/ fault.at \in {"create", "write", "close", "read"}
            \/ content.kind # "epub"
            \/ fault.at = "item" /\ fault.k \in DocItems(content)
        msg == IF fault.at \in {"none", "item"} /\ content.kind # "epub"
               THEN ExcMsg("read") ELSE ExcMsg(fault.at)
        value == IF failed THEN EpubErrPrefix \o msg
                 ELSE Join(<<"\n">>, EpubTexts(content.items, Len(content.items)))
        \* finally: os.unlink runs outside the try's except clause
        unlink_called == tmp_path_set
        raised == unlink_called /\ unlink_fails
    IN  CallRecord("epub_to_text", fault, failed, raised,
                   IF raised THEN <<>> ELSE <<value>>,
                   created, created /\ (~unlink_called \/ unlink_fails),
                   <<>>, <<>>, 0)

\* ------------------------------------------------------------------ pdf_to_text

TocLineText(e) ==
    Repeat(<<" ", " ">>, e.level - 1) \o <<"-", " ">> \o e.title
        \o <<" ", "(">> \o PageLabel \o <<" ">> \o IntToStr(e.page) \o <<")", "\n">>

RECURSIVE TocLoopText(_, _)
TocLoopText(toc, n) ==
    IF n = 0 THEN <<>> ELSE TocLoopText(toc, n - 1) \o TocLineText(toc[n])

\* lines 49-55
TocTextOfPdfToText(toc) ==
    IF Len(toc) = 0 THEN TocHeader \o TocNotFound
    ELSE TocHeader \o TocLoopText(toc, Len(toc))

RECURSIVE PagesText(_, _)
\* lines 57-59: full_text after the first n pages
PagesText(pages, n) ==
    IF n = 0 THEN <<>> ELSE PagesText(pages, n - 1) \o pages[n].text

pdf_to_text(content, fault) ==
    LET failed ==
            \/ content.kind # "pdf"
            \/ fault.at \in {"open", "toc"}
            \/ fault.at = "page" /\ fault.k \in 1..Len(content.pages)
        msg == IF content.kind # "pdf" THEN ExcMsg("open") ELSE ExcMsg(fault.at)
        full_text == PagesText(content.pages, Len(content.pages))
        toc_text == TocTextOfPdfToText(content.toc)
    IN  CallRecord("pdf_to_text", fault, failed, FALSE,
                   IF failed THEN <<PdfErrPrefix \o msg, <<>>>> ELSE <<full_text, toc_text>>,
                   FALSE, FALSE, <<>>, <<>>,
                   IF failed /\ fault.at = "page" THEN fault.k
                   ELSE IF failed THEN 0 ELSE Len(content.pages))

\* ------------------------------------------------------------------ pdf_ocr

\* pdf_ocr's line 77 with the indent taken from the level itself
TocLineOcrIndentByLevel(e) ==
    Repeat(<<" ", " ">>, e.level) \o <<"-", " ">> \o e.title
        \o <<" ", "(">> \o PageLabel \o <<" ">> \o IntToStr(e.page) \o <<")", "\n">>

TocLineOcr(e) ==
    Repeat(<<" ", " ">>, e.level - 1) \o <<"-", " ">> \o e.title
        \o <<" ", "(">> \o PageLabel \o <<" ">> \o IntToStr(e.page) \o <<")", "\n">>

RECURSIVE TocLoopOcr(_, _)
TocLoopOcr(toc, n) ==
    IF n = 0 THEN <<>> ELSE TocLoopOcr(toc, n - 1) \o TocLineOcr(toc[n])

\* lines 71-77
TocTextOfPdfOcr(toc) ==
    IF Len(toc) = 0 THEN TocHeader \o TocNotFound
    ELSE TocHeader \o TocLoopOcr(toc, Len(toc))

RECURSIVE Gcd(_, _)
Gcd(a, b) == IF b = 0 THEN a ELSE Gcd(b, a % b)

\* a / b, true division of two ints, b > 0: the number, as a fraction in lowest
\* terms (so that 2/2 and 1/1 are the same value 1.0)
TrueDiv(a, b) == <<a \div Gcd(a, b), b \div Gcd(a, b)>>

\* f"\n--- Page {i+1} ---\n" for the enumerate index i
PageHeader(i) ==
    <<"\n", "-", "-", "-", " ", "P", "a", "g", "e", " ">> \o IntToStr(i + 1)
        \o <<" ", "-", "-", "-", "\n">>

\* line 86 reporting the enumerate index instead of the page count
ProgressValueOfIndex(i, total_pages) == TrueDiv(i, total_pages)

\* progress_bar.progress(value) of page i
ProgressValue(i, total_pages) == TrueDiv(i + 1, total_pages)

RECURSIVE OcrLoop(_, _, _, _)
\* lines 81-86 from enumerate index i on; acc is the state of the loop:
\* full_text, the values the sink took, the values it was called with, the
\* number of pages the loop has begun, and whether an exception left the loop
OcrLoop(pages, fault, i, acc) ==
    IF i >= Len(pages) THEN acc
    ELSE
        LET hit(stage) == fault.at = stage /\ fault.k = i + 1
            text == acc.full_text \o PageHeader(i) \o pages[i + 1].ocr
            value == ProgressValue(i, Len(pages))
        IN  IF hit("raster") \/ hit("ocr")
            THEN [acc EXCEPT !.started = i + 1, !.exc = TRUE]
            ELSE IF hit("progress")
            THEN [acc EXCEPT !.started = i + 1, !.exc = TRUE, !.full_text = text,
                             !.attempted = Append(@, value)]
            ELSE OcrLoop(pages, fault, i + 1,
                         [acc EXCEPT !.started = i + 1, !.full_text = text,
                                     !.reports = Append(@, value),
                                     !.attempted = Append(@, value)])

OcrLoopInit ==
    [full_text |-> <<>>, reports |-> <<>>, attempted |-> <<>>, started |-> 0, exc |-> FALSE]

\* pdf_ocr keeping what it had when a page fails: the text so far and the TOC
pdf_ocr_partial(content, fault) ==
    LET early == content.kind # "pdf" \/ fault.at \in {"open", "toc"}
        msg == IF content.kind # "pdf" THEN ExcMsg("open") ELSE ExcMsg(fault.at)
        toc_text == TocTextOfPdfOcr(content.toc)
        loop == IF early THEN OcrLoopInit ELSE OcrLoop(content.pages, fault, 0, OcrLoopInit)
    IN  CallRecord("pdf_ocr", fault, early \/ loop.exc, FALSE,
                   IF early THEN <<OcrErrPrefix \o msg, <<>>>>
                   ELSE IF loop.exc THEN <<loop.full_text \o OcrErrPrefix \o msg, toc_text>>
                   ELSE <<loop.full_text, toc_text>>,
                   FALSE, FALSE, loop.reports, loop.attempted, loop.started)

pdf_ocr(content, fault) ==
    LET early == content.kind # "pdf" \/ fault.at \in {"open", "toc"}
        msg == IF content.kind # "pdf" THEN ExcMsg("open") ELSE ExcMsg(fault.at)
        toc_text == TocTextOfPdfOcr(content.toc)
        loop == IF early THEN OcrLoopInit ELSE OcrLoop(content.pages, fault, 0, OcrLoopInit)
        failed == early \/ loop.exc
    IN  CallRecord("pdf_ocr", fault, failed, FALSE,
                   IF failed THEN <<OcrErrPrefix \o msg, <<>>>> ELSE <<loop.full_text, toc_text>>,
                   FALSE, FALSE, loop.reports, loop.attempted, loop.started)

\* ------------------------------------------------------------------ the script

\* lines 100-107
SessionInit ==
    [processed_text |-> NoneVal, file_name |-> NoneVal, toc |-> NoneVal,
     secondary_text |-> NoneVal]

NoRun == [op |-> "start", name |-> <<>>, checkbox |-> FALSE, pressed |-> FALSE]
ScriptRun(op, name, checkbox, pressed) ==
    [op |-> op, name |-> name, checkbox |-> checkbox, pressed |-> pressed]

\* nothing of the result section on the page
NoResult ==
    [exception |-> FALSE, warning |-> FALSE, success |-> FALSE, toc_expander |-> NoneVal,
     preview |-> NoneVal, primary_name |-> NoneVal, secondary_preview |-> NoneVal,
     secondary_name |-> NoneVal]

ExtraSuffix ==
    <<"_", "e", "x", "t", "r", "a", "_", "t", "e", "x", "t", ".", "t", "x", "t">>
EpubSuffix == <<"_", "e", "p", "u", "b", ".", "t", "x", "t">>
TextSuffix == <<"_", "t", "e", "x", "t", ".", "t", "x", "t">>
OcrSuffix == <<"_", "o", "c", "r", ".", "t", "x", "t">>
DotEpub == <<".", "e", "p", "u", "b">>
DotPdf == <<".", "p", "d", "f">>

\* a result section that tells an error string from a result and hides it
RenderHidesErrors(ss) ==
    IF /\ Truthy(ss.processed_text)
       /\ \A prefix \in {EpubErrPrefix, PdfErrPrefix, OcrErrPrefix} :
            ~(Len(prefix) <= Len(ss.processed_text.s)
              /\ SubSeq(ss.processed_text.s, 1, Len(prefix)) = prefix)
    THEN [NoResult EXCEPT
            !.success = TRUE,
            !.preview = ss.processed_text,
            !.primary_name = ss.file_name]
    ELSE NoResult

\* lines 162-186: the result section, rendered from the session state
Render(ss) ==
    IF Truthy(ss.processed_text)
    THEN [NoResult EXCEPT
            !.success = TRUE,
            !.toc_expander = IF Truthy(ss.toc) THEN ss.toc ELSE NoneVal,
            !.preview = ss.processed_text,
            !.primary_name = ss.file_name,
            !.secondary_preview =
                IF Truthy(ss.secondary_text) THEN ss.secondary_text ELSE NoneVal,
            !.secondary_name =
                IF Truthy(ss.secondary_text)
                THEN Some(SplitExtRoot(ss.file_name.s) \o ExtraSuffix)
                ELSE NoneVal]
    ELSE NoResult

\* an uncaught exception ends the script run: Streamlit shows the exception
\* and the lines after the raising call never run
Aborted == [NoResult EXCEPT !.exception = TRUE]

\* lines 115, 125, 159: the branch taken for an uploaded file name
Dispatch(name) ==
    IF EndsWith(name, DotEpub) THEN "epub"
    ELSE IF EndsWith(name, DotPdf) THEN "pdf"
    ELSE "unrecognized"

\* line 113
FileNameBase(name) == SplitExtRoot(name)

\* lines 119-123
EpubHandler(ss, name, r) ==
    [processed_text |-> Some(r.ret[1]),
     file_name |-> Some(FileNameBase(name) \o EpubSuffix),
     toc |-> NoneVal,
     secondary_text |-> NoneVal]

\* lines 135-139
PdfTextHandler(ss, name, r) ==
    [processed_text |-> Some(r.ret[1]),
     toc |-> Some(r.ret[2]),
     file_name |-> Some(FileNameBase(name) \o TextSuffix),
     secondary_text |-> NoneVal]

\* lines 148-157; r2 is the call of line 154, made when the checkbox is set
PdfOcrHandler(ss, name, r, output_txt_additionally, r2) ==
    [processed_text |-> Some(r.ret[1]),
     toc |-> Some(r.ret[2]),
     file_name |-> Some(FileNameBase(name) \o OcrSuffix),
     secondary_text |-> IF output_txt_additionally THEN Some(r2.ret[1]) ELSE NoneVal]

\* ------------------------------------------------------------------ uploads

UploadNames ==
    { <<"a", ".", "b", ".", "e", "p", "u", "b">>,
      <<"c", ".", "p", "d", "f">>,
      <<"E", ".", "P", "D", "F">> }

\* the files uploaded: PDFs without and with a table of contents, of up to
\* UiMaxPages pages; EPUBs of no item, of an empty and of a non-empty document
UiTocs == {<<>>, <<[level |-> 2, title |-> <<"B", "c">>, page |-> 12]>>}
UiPdfDocs ==
    {PdfDoc(t, p) : t \in UiTocs, p \in SeqsUpTo(PageKinds, UiMaxPages)} \cup {JunkDoc}
UiEpubDocs ==
    { EpubDoc(<<>>),
      EpubDoc(<<[doc |-> TRUE, html |-> <<>>]>>),
      EpubDoc(<<[doc |-> TRUE, html |-> <<"<p>", "h", "</p>">>]>>),
      JunkDoc }

UiEpubFaults == {NoFault, Fault("write"), Fault("read")}
UiTextFaults == {NoFault, Fault("toc")}
UiOcrFaults(content) ==
    {NoFault, Fault("toc")} \cup {FaultAt("progress", k) : k \in {Len(content.pages)} \ {0}}

\* ------------------------------------------------------------------ script runs

Init ==
    /\ file_content = JunkDoc
    /\ call = <<>>
    /\ session_state = SessionInit
    /\ run = NoRun
    /\ ui = NoResult
    /\ last_conversion = NoRun

\* a run without a button press that resets the session when the uploader is empty
IdleResetsOnNoFile(op, name, checkbox) ==
    /\ run' = ScriptRun(op, name, checkbox, FALSE)
    /\ session_state' = IF op = "nofile" THEN SessionInit ELSE session_state
    /\ ui' = [Render(session_state') EXCEPT !.warning = (op = "unrecognized")]
    /\ UNCHANGED <<file_content, call, last_conversion>>

\* a run that presses no button: lines 109-160 store nothing
Idle(op, name, checkbox) ==
    /\ run' = ScriptRun(op, name, checkbox, FALSE)
    /\ ui' = [Render(session_state) EXCEPT !.warning = (op = "unrecognized")]
    /\ UNCHANGED <<file_content, call, session_state, last_conversion>>

\* line 111: no file in the uploader
RunNoFile == Idle("nofile", <<>>, FALSE)

RunEpubIdle ==
    \E name \in UploadNames :
        /\ Dispatch(name) = "epub"
        /\ Idle("epub", name, FALSE)

RunPdfTextIdle ==
    \E name \in UploadNames :
        /\ Dispatch(name) = "pdf"
        /\ Idle("pdf_text", name, FALSE)

RunPdfOcrIdle ==
    \E name \in UploadNames, checkbox \in BOOLEAN :
        /\ Dispatch(name) = "pdf"
        /\ Idle("pdf_ocr", name, checkbox)

\* line 160
RunUnrecognized ==
    \E name \in UploadNames :
        /\ Dispatch(name) = "unrecognized"
        /\ Idle("unrecognized", name, FALSE)

\* lines 117-123, then 162-186
RunEpubConvert ==
    \E name \in UploadNames, content \in UiEpubDocs, fault \in UiEpubFaults,
       unlink_fails \in BOOLEAN :
        /\ Dispatch(name) = "epub"
        /\ LET r == epub_to_text(content, fault, unlink_fails)
           IN  /\ file_content' = content
               /\ call' = <<r>>
               /\ run' = ScriptRun("epub", name, FALSE, TRUE)
               /\ last_conversion' = run'
               /\ IF r.raised
                  THEN /\ session_state' = session_state
                       /\ ui' = Aborted
                  ELSE /\ session_state' = EpubHandler(session_state, name, r)
                       /\ ui' = Render(session_state')

\* lines 133-139, then 162-186
RunPdfTextConvert ==
    \E name \in UploadNames, content \in UiPdfDocs, fault \in UiTextFaults :
        /\ Dispatch(name) = "pdf"
        /\ LET r == pdf_to_text(content, fault)
           IN  /\ file_content' = content
               /\ call' = <<r>>
               /\ run' = ScriptRun("pdf_text", name, FALSE, TRUE)
               /\ last_conversion' = run'
               /\ session_state' = PdfTextHandler(session_state, name, r)
               /\ ui' = Render(session_state')

\* lines 145-158, then 162-186
RunPdfOcrConvert ==
    \E name \in UploadNames, content \in UiPdfDocs, checkbox \in BOOLEAN :
        \E fault \in UiOcrFaults(content), fault2 \in UiTextFaults :
            /\ Dispatch(name) = "pdf"
            /\ checkbox \/ fault2 = NoFault
            /\ LET r == pdf_ocr(content, fault)
                   r2 == pdf_to_text(content, fault2)
               IN  /\ file_content' = content
                   /\ call' = IF checkbox THEN <<r, r2>> ELSE <<r>>
                   /\ run' = ScriptRun("pdf_ocr", name, checkbox, TRUE)
                   /\ last_conversion' = run'
                   /\ session_state' = PdfOcrHandler(session_state, name, r, checkbox, r2)
                   /\ ui' = Render(session_state')

Next ==
    \/ RunNoFile
    \/ RunEpubIdle
    \/ RunPdfTextIdle
    \/ RunPdfOcrIdle
    \/ RunUnrecognized
    \/ RunEpubConvert
    \/ RunPdfTextConvert
    \/ RunPdfOcrConvert

Spec == Init /\ [][Next]_vars

\* ------------------------------------------------------------------ the functions, called directly

FnDocs == PdfDocs(MaxToc, MaxPages) \cup EpubDocs(MaxItems) \cup {JunkDoc}

InitFn ==
    /\ file_content \in FnDocs
    /\ call = <<>>
    /\ session_state = SessionInit
    /\ run = NoRun
    /\ ui = NoResult
    /\ last_conversion = NoRun

CallEpubToText ==
    \E fault \in EpubFaults(file_content), unlink_fails \in BOOLEAN :
        /\ call' = <<epub_to_text(file_content, fault, unlink_fails)>>
        /\ UNCHANGED <<file_content, session_state, run, ui, last_conversion>>

CallPdfToText ==
    \E fault \in PdfTextFaults(file_content) :
        /\ call' = <<pdf_to_text(file_content, fault)>>
        /\ UNCHANGED <<file_content, session_state, run, ui, last_conversion>>

CallPdfOcr ==
    \E fault \in PdfOcrFaults(file_content) :
        /\ call' = <<pdf_ocr(file_content, fault)>>
        /\ UNCHANGED <<file_content, session_state, run, ui, last_conversion>>

NextFn == CallEpubToText \/ CallPdfToText \/ CallPdfOcr

SpecFn == InitFn /\ [][NextFn]_vars

\* ------------------------------------------------------------------ claims about the functions

IsPrefix(p, t) == Len(p) <= Len(t) /\ SubSeq(t, 1, Len(p)) = p

ErrPrefix(fn) ==
    CASE fn = "epub_to_text" -> EpubErrPrefix
      [] fn = "pdf_to_text" -> PdfErrPrefix
      [] fn = "pdf_ocr" -> OcrErrPrefix

Calls == {call[i] : i \in 1..Len(call)}

\* C1: after a call of epub_to_text returns, whichever step failed or
\* succeeded, the temporary file the call created is not on disk.
C1_TempFileRemoved ==
    \A c \in Calls : (c.fn = "epub_to_text" /\ ~c.raised) => ~c.tmp_exists

\* C2: no conversion function raises to its caller; a failure inside it comes
\* back as the error string, for the PDF functions as (error string, "").
C2_NeverRaises ==
    \A c \in Calls :
        /\ ~c.raised
        /\ c.caught =>
            /\ IsPrefix(ErrPrefix(c.fn), c.ret[1])
            /\ c.fn \in {"pdf_to_text", "pdf_ocr"} => (Len(c.ret) = 2 /\ c.ret[2] = <<>>)

\* the number i / n against a value of the progress sink
IsRatio(v, i, n) == v[1] * n = i * v[2]
Less(v, w) == v[1] * w[2] < w[1] * v[2]
One == <<1, 1>>

\* C4: in pdf_ocr on N pages the i-th value given to the progress sink is
\* i/N, the values increase strictly, there is one per page, and a call that
\* went through all pages reported 1.0 last.
C4_ProgressIsPageOverTotal ==
    \A c \in Calls :
        c.fn = "pdf_ocr" =>
            LET N == Len(file_content.pages)
                r == c.reports
            IN  /\ Len(r) <= N
                /\ \A i \in 1..Len(r) : IsRatio(r[i], i, N)
                /\ \A i \in 1..(Len(r) - 1) : Less(r[i], r[i + 1])
                /\ ~c.caught => (Len(r) = N /\ (N > 0 => r[N] = One))

C4_Witness ==
    /\ Len(call) = 1
    /\ call[1].fn = "pdf_ocr"
    /\ ~call[1].caught
    /\ call[1].reports = <<(<<1, 3>>), (<<2, 3>>), (<<1, 1>>)>>

\* the rendering of a table of contents as the specification words it
ClaimIndent(level) == [j \in 1..(2 * (level - 1)) |-> " "]
ClaimLine(e) ==
    ClaimIndent(e.level) \o <<"-", " ">> \o e.title
        \o <<" ", "(", "U+9875", "U+7801", " ">> \o IntToStr(e.page) \o <<")", "\n">>
RECURSIVE ClaimLines(_)
ClaimLines(toc) == IF toc = <<>> THEN <<>> ELSE ClaimLine(Head(toc)) \o ClaimLines(Tail(toc))
ClaimToc(toc) ==
    <<"U+76EE", "U+5F55", ":", "\n">>
        \o (IF toc = <<>>
            THEN <<"U+672A", "U+627E", "U+5230", "U+76EE", "U+5F55", "U+3002", "\n">>
            ELSE ClaimLines(toc))

\* C5: pdf_to_text and pdf_ocr return the same TOC text for a TOC list: the
\* header, then the not-found line for an empty list, else a line per entry
\* in order, indented two spaces per level below the first.
C5_TocRendering ==
    \A c \in Calls :
        (c.fn \in {"pdf_to_text", "pdf_ocr"} /\ ~c.caught) =>
            /\ c.ret[2] = ClaimToc(file_content.toc)
            /\ TocTextOfPdfToText(file_content.toc) = TocTextOfPdfOcr(file_content.toc)

C5_Witness ==
    /\ Len(call) = 1
    /\ call[1].fn = "pdf_ocr"
    /\ ~call[1].caught
    /\ Len(file_content.toc) = 2
    /\ call[1].ret[2] =
        <<"U+76EE", "U+5F55", ":", "\n",
          "-", " ", "A", " ", "(", "U+9875", "U+7801", " ", "5", ")", "\n",
          " ", " ", "-", " ", "B", "c", " ", "(", "U+9875", "U+7801", " ", "1", "2", ")", "\n">>

\* C8: when page k of pdf_ocr fails (rasterization, OCR or the progress
\* call), no later page is begun, the sink has taken the reports of pages
\* 1..k-1 only, 1.0 was passed to it only if the failing call is the last
\* page's progress call, and the call returns (error string, "").
C8_NoPartialResult ==
    \A c \in Calls :
        (c.fn = "pdf_ocr" /\ c.fault.at \in {"raster", "ocr", "progress"}) =>
            LET N == Len(file_content.pages)
                k == c.fault.k
            IN  /\ c.started = k
                /\ Len(c.reports) = k - 1
                /\ \A i \in 1..Len(c.reports) :
                        IsRatio(c.reports[i], i, N) /\ c.reports[i] # One
                /\ Len(c.attempted) = (IF c.fault.at = "progress" THEN k ELSE k - 1)
                /\ (\E i \in 1..Len(c.attempted) : c.attempted[i] = One)
                        => (c.fault.at = "progress" /\ k = N)
                /\ ~c.raised
                /\ c.ret = <<OcrErrPrefix \o ExcMsg(c.fault.at), <<>>>>

C8_Witness ==
    /\ Len(call) = 1
    /\ call[1].fn = "pdf_ocr"
    /\ call[1].fault = FaultAt("ocr", 3)
    /\ call[1].started = 3
    /\ Len(call[1].reports) = 2
    /\ file_content.toc # <<>>
    /\ call[1].ret[2] = <<>>

\* ------------------------------------------------------------------ claims about the script

\* a file name without its last extension, and the suffix of each conversion
ClaimBase(name) ==
    IF \E i \in 1..Len(name) : name[i] = "."
    THEN SubSeq(name, 1, (CHOOSE i \in 1..Len(name) :
                            name[i] = "." /\ \A j \in (i + 1)..Len(name) : name[j] # ".") - 1)
    ELSE name
ClaimSuffix(op) ==
    CASE op = "epub" -> <<"_", "e", "p", "u", "b", ".", "t", "x", "t">>
      [] op = "pdf_text" -> <<"_", "t", "e", "x", "t", ".", "t", "x", "t">>
      [] op = "pdf_ocr" -> <<"_", "o", "c", "r", ".", "t", "x", "t">>
ClaimName(conv) == ClaimBase(conv.name) \o ClaimSuffix(conv.op)

\* C3: a conversion overwrites all four session-state slots: after any
\* sequence of runs every slot holds the value the most recent conversion
\* produced, none holds a value of an earlier one.
C3_SlotsOfLastConversion ==
    last_conversion.pressed =>
        /\ Len(call[1].ret) >= 1
        /\ session_state.processed_text = Some(call[1].ret[1])
        /\ session_state.file_name = Some(ClaimName(last_conversion))
        /\ session_state.toc =
            (IF last_conversion.op = "epub" THEN NoneVal ELSE Some(call[1].ret[2]))
        /\ session_state.secondary_text =
            (IF last_conversion.op = "pdf_ocr" /\ last_conversion.checkbox
             THEN Some(call[2].ret[1]) ELSE NoneVal)

\* C6: after a conversion of a file whose name without its extension is B,
\* the primary download is named B_epub.txt, B_text.txt or B_ocr.txt by the
\* conversion; a secondary download offered is named like the primary one
\* without extension plus _extra_text.txt, which is B_ocr_extra_text.txt.
C6_DownloadNames ==
    /\ (last_conversion.pressed /\ ~ui.primary_name.none) =>
            ui.primary_name = Some(ClaimName(last_conversion))
    /\ ~ui.secondary_name.none =>
        /\ last_conversion.op = "pdf_ocr" /\ last_conversion.checkbox
        /\ ui.secondary_name =
            Some(ClaimBase(ui.primary_name.s)
                    \o <<"_", "e", "x", "t", "r", "a", "_", "t", "e", "x", "t", ".", "t", "x", "t">>)
        /\ ui.secondary_name =
            Some(ClaimBase(last_conversion.name)
                    \o <<"_", "o", "c", "r", "_", "e", "x", "t", "r", "a", "_", "t", "e", "x",
                         "t", ".", "t", "x", "t">>)

\* C7: after a conversion whose function returned an error string, the
\* string is in processed_text and the run shows the success banner, the
\* preview and the primary download under the conversion's usual name; an
\* error string of the additional text extraction is stored and shown as the
\* secondary text in the same way.
C7_ErrorShownAsResult ==
    /\ (run.pressed /\ ~call[1].raised /\ call[1].caught) =>
        /\ IsPrefix(ErrPrefix(call[1].fn), call[1].ret[1])
        /\ session_state.processed_text = Some(call[1].ret[1])
        /\ ui.success
        /\ ui.preview = Some(call[1].ret[1])
        /\ ui.primary_name = Some(ClaimName(run))
    /\ (run.pressed /\ Len(call) = 2 /\ call[2].caught) =>
        /\ IsPrefix(ErrPrefix(call[2].fn), call[2].ret[1])
        /\ session_state.secondary_text = Some(call[2].ret[1])
        /\ ui.success =>
            /\ ui.secondary_preview = Some(call[2].ret[1])
            /\ ~ui.secondary_name.none

C7_Witness ==
    /\ run.pressed
    /\ run.op = "pdf_ocr"
    /\ Len(call) = 2
    /\ call[1].caught
    /\ call[2].caught
    /\ ui.success
    /\ ui.preview = Some(OcrErrPrefix \o <<"e", "r", "r">>)
    /\ ui.primary_name = Some(<<"c", "_", "o", "c", "r", ".", "t", "x", "t">>)
    /\ ui.secondary_preview = Some(PdfErrPrefix \o <<"e", "r", "r">>)

\* C9: a run in which no conversion button is pressed leaves the four slots
\* as they were, shows the warning exactly when the file name is neither
\* .epub nor .pdf, and renders the previous result under its previous name.
C9_IdleRunKeepsResult ==
    [][ (~run'.pressed) =>
            /\ session_state' = session_state
            /\ ui'.warning = (run'.op # "nofile" /\ ~EndsWith(run'.name, DotEpub)
                                /\ ~EndsWith(run'.name, DotPdf))
            /\ ui'.success = Truthy(session_state.processed_text)
            /\ ui'.success =>
                /\ ui'.preview = session_state.processed_text
                /\ ui'.primary_name = session_state.file_name ]_vars

C9_Witness ==
    /\ ~run.pressed
    /\ run.op = "unrecognized"
    /\ run.name = <<"E", ".", "P", "D", "F">>
    /\ ui.warning
    /\ ui.success
    /\ ui.primary_name = Some(<<"c", "_", "t", "e", "x", "t", ".", "t", "x", "t">>)

\* C10: the result section is rendered exactly when processed_text is a
\* non-empty string, and then file_name is not None; a conversion that
\* returns the empty string leaves no banner, preview or download.
C10_RenderedIffNonEmpty ==
    /\ ui.success = Truthy(session_state.processed_text)
    /\ ui.success => (~session_state.file_name.none /\ ~ui.primary_name.none)
    /\ (run.pressed /\ ~call[1].raised /\ call[1].ret[1] = <<>>) => ui = NoResult

====
